---- MODULE Spec2Model ----
(***************************************************************************)
(* Attendance sessions: the AttendanceSession document and its methods     *)
(* (src/unnamed/part_000), the Attendance collection (src/attendence.js)   *)
(* and the check-in handlers that run canMarkAttendance and then insert a  *)
(* record.  Times are milliseconds since an arbitrary epoch, as Date       *)
(* values are in the source.                                               *)
(***************************************************************************)
EXTENDS Integers, Sequences, FiniteSets, TLC

\* ------------------------------------------------------------------ bounds
\* The clock advances in steps of TickMs up to MaxTick steps.
MaxTick == 3
\* The Attendance collection holds at most MaxRecords records of the session.
MaxRecords == 2

\* The statistics are recomputed over at most MaxStatRecords records.
MaxStatRecords == 5

\* Half a minute: the granularity of the model's clock.
TickMs == 30 * 1000
\* attendanceWindowMinutes * 60 * 1000 (part_000:164, part_000:203)
MsPerMinute == 60 * 1000

Times == {k * TickMs : k \in 0..MaxTick}

\* settings.attendanceWindowMinutes: a Number with min 1 and max 30; the
\* model uses the two smallest values.
WindowMinutesChoices == {1, 2}

\* The schedule the session is created with.
ScheduledStart == 1 * TickMs
ScheduledEnd == 2 * TickMs

\* status enum of AttendanceSession
SessionStatus == {"scheduled", "active", "completed", "cancelled"}
\* status enum of Attendance
AttendanceStatus == {"present", "absent", "late", "excused"}

\* ObjectIds: one id space shared by all collections; two ids are equal
\* only when they name the same document.
UserId(n) == [coll |-> "User", n |-> n]
AttendanceId(n) == [coll |-> "Attendance", n |-> n]
SessionId(n) == [coll |-> "AttendanceSession", n |-> n]

Students == {UserId(1), UserId(2)}
ThisSession == SessionId(1)
OtherSession == SessionId(2)
Handlers == {"h1", "h2"}

VARIABLES
  now,       \* the wall clock, new Date()
  session,   \* the AttendanceSession document ThisSession, as saved
  records,   \* the Attendance collection, in insertion order
  pc,        \* per check-in handler: "idle" or "insert"
  req,       \* per check-in handler: the student and status of its request
  lastOp,    \* the operation that made the last step, with its outcome
  geo,       \* the last isWithinGeofence call: its arguments and its outcome
  clock,     \* Date.now() as the rate limiter reads it
  attempts,  \* the rate limiter's Map: per user the list of kept timestamps
  admitted,  \* per user the timestamps of the latest requests passed to next()
  retryAt,   \* per user the earliest time a 429 since the last admission named
  lastReq,   \* the rate limiter's last request and its outcome
  connected, \* the sockets that are connected
  rooms,     \* socket.io's rooms: per room name the sockets in it
  joined,    \* per socket and classroom: whether it joined and has not left
  lastEmit,  \* the last broadcast: event, classroom, sender and receivers
  auth,      \* the last authenticateToken call: the request and its outcome
  optional   \* the last optionalAuth call: the request and its outcome

sessionVars == <<now, session, records, pc, req, lastOp>>
geoVars == <<geo>>
limiterVars == <<clock, attempts, admitted, retryAt, lastReq>>
socketVars == <<connected, rooms, joined, lastEmit>>
authVars == <<auth, optional>>

vars == <<sessionVars, geoVars, limiterVars, socketVars, authVars>>

\* What the session's operations leave alone.
notSession == <<geoVars, limiterVars, socketVars, authVars>>

\* ------------------------------------------------------------ the document
\* Mongoose's isModified(path): true when path, a parent of it or a child of
\* it was set since the last save.  Paths are sequences of field names.
IsPrefix(p, q) == Len(p) <= Len(q) /\ SubSeq(q, 1, Len(p)) = p

isModified(modified, path) ==
  \E m \in modified : IsPrefix(m, path) \/ IsPrefix(path, m)

windowOf(startTime, minutes) ==
  [start |-> startTime, end |-> startTime + (minutes * MsPerMinute)]

\* pre('save'): recompute the attendance window
preSave(doc, isNew, modified) ==
  IF isNew \/ isModified(modified, <<"startTime">>)
           \/ isModified(modified, <<"attendanceWindowMinutes">>)
  THEN [doc EXCEPT !.attendanceWindow =
          windowOf(doc.startTime, doc.settings.attendanceWindowMinutes)]
  ELSE doc

\* A new session document with the schema's defaults, saved.
newSession(startTime, endTime, minutes) ==
  preSave([status |-> "scheduled",
           startTime |-> startTime,
           endTime |-> endTime,
           attendanceWindow |-> [start |-> 0, end |-> 0],
           settings |-> [autoMarkAbsent |-> TRUE,
                         attendanceWindowMinutes |-> minutes],
           attendance |-> <<>>,
           statistics |-> [totalStudents |-> 0, presentCount |-> 0,
                           absentCount |-> 0, lateCount |-> 0,
                           excusedCount |-> 0,
                           attendancePercentage |-> [num |-> 0, den |-> 1]]],
          TRUE, {})

\* methods.isActive
isActive(doc, t) ==
  doc.status = "active" /\ t >= doc.startTime /\ t <= doc.endTime

\* isAttendanceWindowOpen without the comparison with attendanceWindow.end
isAttendanceWindowOpen_noEnd(doc, t) ==
  doc.status = "active" /\ t >= doc.attendanceWindow.start

\* isAttendanceWindowOpen without the comparison of the status
isAttendanceWindowOpen_noStatus(doc, t) ==
  t >= doc.attendanceWindow.start /\ t <= doc.attendanceWindow.end

\* methods.isAttendanceWindowOpen
isAttendanceWindowOpen(doc, t) ==
  doc.status = "active" /\ t >= doc.attendanceWindow.start
                        /\ t <= doc.attendanceWindow.end

\* Array.prototype.includes on the attendance array
includes(arr, id) == \E i \in 1..Len(arr) : arr[i] = id

WindowClosed == "Attendance window is closed"
AlreadyMarked == "Attendance already marked"

\* methods.canMarkAttendance
canMarkAttendance(doc, t, studentId) ==
  IF ~isAttendanceWindowOpen(doc, t)
  THEN [canMark |-> FALSE, reason |-> WindowClosed]
  ELSE IF includes(doc.attendance, studentId)
  THEN [canMark |-> FALSE, reason |-> AlreadyMarked]
  ELSE [canMark |-> TRUE, reason |-> "none"]

\* methods.startSession
startSession(doc, t) ==
  preSave([doc EXCEPT !.status = "active",
                      !.startTime = t,
                      !.attendanceWindow =
                         windowOf(t, doc.settings.attendanceWindowMinutes)],
          FALSE, {<<"status">>, <<"startTime">>, <<"attendanceWindow">>})

\* methods.endSession
endSession(doc, t) ==
  preSave([doc EXCEPT !.status = "completed", !.endTime = t],
          FALSE, {<<"status">>, <<"endTime">>})

\* methods.cancelSession
cancelSession(doc) ==
  preSave([doc EXCEPT !.status = "cancelled"], FALSE, {<<"status">>})

\* An update of the schedule: the document's startTime is set and saved.
setStartTime(doc, t) ==
  preSave([doc EXCEPT !.startTime = t], FALSE,
          IF t = doc.startTime THEN {} ELSE {<<"startTime">>})

\* An update of the settings: settings.attendanceWindowMinutes is set and
\* the document saved.  Mongoose records the path that was set,
\* settings.attendanceWindowMinutes.
setWindowMinutes(doc, m) ==
  preSave([doc EXCEPT !.settings.attendanceWindowMinutes = m], FALSE,
          IF m = doc.settings.attendanceWindowMinutes THEN {}
          ELSE {<<"settings", "attendanceWindowMinutes">>})

\* ------------------------------------------------------------ the records
\* The indexes attendanceSchema declares, each with its key and whether it
\* is declared unique.  None is.
AttendanceIndexes ==
  { [key |-> {"classroom", "student"}, unique |-> FALSE],
    [key |-> {"session"}, unique |-> FALSE],
    [key |-> {"markedAt"}, unique |-> FALSE],
    [key |-> {"status"}, unique |-> FALSE],
    [key |-> {"classroom", "markedAt"}, unique |-> FALSE],
    [key |-> {"student", "markedAt"}, unique |-> FALSE],
    [key |-> {"teacher", "markedAt"}, unique |-> FALSE] }

\* Whether the collection refuses rec: some unique index whose key is made
\* of the fields the model keeps already holds rec's key.
duplicateKey(coll, rec) ==
  \E idx \in AttendanceIndexes :
    /\ idx.unique
    /\ idx.key \subseteq {"student", "session", "status"}
    /\ \E i \in 1..Len(coll) : \A f \in idx.key : coll[i][f] = rec[f]

newRecord(coll, student, status) ==
  [id |-> AttendanceId(Len(coll) + 1), student |-> student,
   session |-> ThisSession, status |-> status]

\* The aggregation without its $match stage
matchSession_all(coll, sid) == 1..Len(coll)

\* $match { session: sid }
matchSession(coll, sid) == {i \in 1..Len(coll) : coll[i].session = sid}

\* $group { _id: '$status', count: { $sum: 1 } }: one group per status that
\* occurs.
groupByStatus(coll, idxs) ==
  { [id |-> st, count |-> Cardinality({i \in idxs : coll[i].status = st})] :
      st \in {coll[i].status : i \in idxs} }

RECURSIVE sumCounts(_)
\* stats.reduce((sum, stat) => sum + stat.count, 0)
sumCounts(stats) ==
  IF stats = {} THEN 0
  ELSE LET g == CHOOSE x \in stats : TRUE
       IN g.count + sumCounts(stats \ {g})

\* stats.find(s => s._id === st)?.count || 0
countOf(stats, st) ==
  IF \E g \in stats : g.id = st
  THEN (CHOOSE g \in stats : g.id = st).count
  ELSE 0

\* methods.updateStatistics.  attendancePercentage is kept as the exact
\* fraction num/den of (presentCount / totalStudents) * 100.
updateStatistics(doc, coll) ==
  LET stats == groupByStatus(coll, matchSession(coll, ThisSession))
      total == sumCounts(stats)
      present == countOf(stats, "present")
  IN preSave(
       [doc EXCEPT !.statistics =
          [totalStudents |-> total,
           presentCount |-> present,
           absentCount |-> countOf(stats, "absent"),
           lateCount |-> countOf(stats, "late"),
           excusedCount |-> countOf(stats, "excused"),
           attendancePercentage |->
             IF total > 0 THEN [num |-> present * 100, den |-> total]
             ELSE doc.statistics.attendancePercentage]],
       FALSE, {<<"statistics">>})

\* ------------------------------------------------------------ the geofence
\* JavaScript values: a number, undefined or NaN.
Num(n) == [t |-> "number", v |-> n]
Undefined == [t |-> "undefined", v |-> 0]
NaN == [t |-> "NaN", v |-> 0]

\* !x is false exactly for a number other than 0.
truthy(x) == x.t = "number" /\ x.v # 0

\* a <= b: false when either side is not a number.
lessEq(a, b) == a.t = "number" /\ b.t = "number" /\ a.v <= b.v

\* A classroomLocation argument: an object whose latitude and longitude may
\* be absent, or no object at all.
Location(lat, lon) == [t |-> "object", latitude |-> lat, longitude |-> lon]
NoLocation == [t |-> "undefined", latitude |-> Undefined, longitude |-> Undefined]

\* Coordinates are thousandths of a degree around (0, 0).
Coords == {-1, 0, 1}

Abs(n) == IF n < 0 THEN 0 - n ELSE n

\* The haversine formula's value, in metres rounded up, for two points of
\* the grid that lie dLat and dLon thousandths of a degree apart (R = 6371e3).
HaversineMetres ==
  [d \in (0..2) \X (0..2) |->
     CASE d = <<0, 0>> -> 0
       [] d = <<0, 1>> -> 112
       [] d = <<1, 0>> -> 112
       [] d = <<1, 1>> -> 158
       [] d = <<0, 2>> -> 223
       [] d = <<2, 0>> -> 223
       [] d = <<1, 2>> -> 249
       [] d = <<2, 1>> -> 249
       [] d = <<2, 2>> -> 315]

\* methods.calculateDistance: arithmetic on undefined gives NaN.
calculateDistance(lat1, lon1, lat2, lon2) ==
  IF \A x \in {lat1, lon1, lat2, lon2} : x.t = "number"
  THEN Num(HaversineMetres[<<Abs(lat2.v - lat1.v), Abs(lon2.v - lon1.v)>>])
  ELSE NaN

\* methods.isWithinGeofence on a record whose location holds lat and lon.
\* Reading a property of an absent classroomLocation throws a TypeError.
isWithinGeofence(lat, lon, classroomLocation, radius) ==
  IF ~truthy(lat) \/ ~truthy(lon)
  THEN [threw |-> FALSE, value |-> FALSE]
  ELSE IF classroomLocation.t # "object"
  THEN [threw |-> TRUE, value |-> FALSE]
  ELSE [threw |-> FALSE,
        value |-> lessEq(calculateDistance(lat, lon,
                                           classroomLocation.latitude,
                                           classroomLocation.longitude),
                         radius)]

GeoInit ==
  geo = [called |-> FALSE, lat |-> Undefined, lon |-> Undefined,
         classroomLocation |-> NoLocation, radius |-> Undefined,
         threw |-> FALSE, value |-> FALSE]

\* -------------------------------------------------------- the rate limiter
\* rateLimitByUser(maxAttempts, windowMs) as the model instantiates it.
MaxAttempts == 2
\* Half a second: the granularity of the limiter's clock.
ClockTickMs == 5 * 100
WindowMs == 3 * ClockTickMs
\* The clock advances at most MaxClock times.
MaxClock == 4

LimiterUsers == {"u1", "u2"}
\* req.user is not set: userId is undefined.
Anonymous == ""

\* Math.ceil(a / b) for b > 0
CeilDiv(a, b) == 0 - ((0 - a) \div b)

\* userAttempts.filter(time => now - time < windowMs)
validAttempts(list, t) == SelectSeq(list, LAMBDA time : t - time < WindowMs)

\* The limiter admitting while the list is no longer than maxAttempts
limitRequest_offByOne(list, t) ==
  LET valid == validAttempts(list, t)
  IN IF Len(valid) > MaxAttempts
     THEN [status |-> "429", stored |-> list,
           retryAfter |-> CeilDiv(valid[1] + WindowMs - t, 1000)]
     ELSE [status |-> "next", stored |-> Append(valid, t), retryAfter |-> 0]

\* The limiter storing the unfiltered list
limitRequest_noEviction(list, t) ==
  LET valid == validAttempts(list, t)
  IN IF Len(valid) >= MaxAttempts
     THEN [status |-> "429", stored |-> list,
           retryAfter |-> CeilDiv(valid[1] + WindowMs - t, 1000)]
     ELSE [status |-> "next", stored |-> Append(list, t), retryAfter |-> 0]

\* The limiter rounding retryAfter down
limitRequest_floor(list, t) ==
  LET valid == validAttempts(list, t)
  IN IF Len(valid) >= MaxAttempts
     THEN [status |-> "429", stored |-> list,
           retryAfter |-> (valid[1] + WindowMs - t) \div 1000]
     ELSE [status |-> "next", stored |-> Append(valid, t), retryAfter |-> 0]

\* The middleware rateLimitByUser returns, for a user whose list is list, at
\* time t: the response, the list the Map holds afterwards and retryAfter.
limitRequest(list, t) ==
  LET valid == validAttempts(list, t)
  IN IF Len(valid) >= MaxAttempts
     THEN [status |-> "429", stored |-> list,
           retryAfter |-> CeilDiv(valid[1] + WindowMs - t, 1000)]
     ELSE [status |-> "next", stored |-> Append(valid, t), retryAfter |-> 0]

LimiterInit ==
  /\ clock = 0
  /\ attempts = [u \in LimiterUsers |-> <<>>]
  /\ admitted = [u \in LimiterUsers |-> <<>>]
  /\ retryAt = [u \in LimiterUsers |-> -1]
  /\ lastReq = [user |-> Anonymous, at |-> 0, status |-> "none",
                retryAfter |-> 0, retryAtBefore |-> -1, youngBefore |-> 0]

\* ------------------------------------------------------------- the sockets
Sockets == {"a", "b", "c"}
ClassroomIds == {"c1", "c2"}

\* `classroom-${classroomId}`
roomName(classroomId) == "classroom-" \o classroomId

RoomNames == {roomName(c) : c \in ClassroomIds}

\* socket.join(room)
join(rs, socket, room) == [rs EXCEPT ![room] = @ \cup {socket}]

\* socket.leave(room)
leave(rs, socket, room) == [rs EXCEPT ![room] = @ \ {socket}]

\* On disconnect socket.io takes the socket out of every room.
leaveAll(rs, socket) == [r \in DOMAIN rs |-> rs[r] \ {socket}]

\* A broadcast that reaches the whole room, as io.to(room).emit does
receivers_all(rs, socket, room) == rs[room]

\* socket.to(room).emit: every socket in the room but the sender
receivers(rs, socket, room) == rs[room] \ {socket}

SocketInit ==
  /\ connected = {}
  /\ rooms = [r \in RoomNames |-> {}]
  /\ joined = [s \in Sockets |-> [c \in ClassroomIds |-> FALSE]]
  /\ lastEmit = [event |-> "none", classroomId |-> "c1", from |-> "a",
                 to |-> {}, members |-> {}]

\* ------------------------------------------------------------------ auth
AuthUsers == {"u1", "u2"}

\* What jwt.verify makes of a token: its payload, or the error it throws.
TokenKinds == {"valid", "malformed", "expired", "notYetValid"}

verifyError(kind) ==
  CASE kind = "malformed" -> "JsonWebTokenError"
    [] kind = "expired" -> "TokenExpiredError"
    [] kind = "notYetValid" -> "NotBeforeError"

\* The authorization header: absent, or a scheme followed or not by a
\* token, which may be the empty string.
NoHeader ==
  [present |-> FALSE, scheme |-> "", hasToken |-> FALSE,
   token |-> [empty |-> TRUE, kind |-> "malformed", userId |-> "u1"]]

Headers ==
  {NoHeader}
  \cup {[present |-> TRUE, scheme |-> "Bearer", hasToken |-> FALSE,
         token |-> NoHeader.token]}
  \cup {[present |-> TRUE, scheme |-> "Bearer", hasToken |-> TRUE,
         token |-> NoHeader.token]}
  \cup {[present |-> TRUE, scheme |-> sc, hasToken |-> TRUE,
         token |-> [empty |-> FALSE, kind |-> k, userId |-> u]] :
          sc \in {"Bearer", "Basic"}, k \in TokenKinds, u \in AuthUsers}

\* What User.findById gives: an error, null or the user.
Lookups ==
  {[t |-> "throws", isActive |-> FALSE, isLocked |-> FALSE],
   [t |-> "null", isActive |-> FALSE, isLocked |-> FALSE]}
  \cup {[t |-> "user", isActive |-> a, isLocked |-> l] : a, l \in BOOLEAN}

\* authHeader && authHeader.split(' ')[1]: a token, or nothing (<<>>)
tokenOf(header) ==
  IF header.present /\ header.hasToken /\ ~header.token.empty
  THEN <<header.token>> ELSE <<>>

respond(status, code) ==
  [nextCalls |-> 0, user |-> <<>>,
   responses |-> <<[status |-> status, code |-> code]>>]

\* The catch block of authenticateToken
authCatch(errorName) ==
  IF errorName = "JsonWebTokenError" THEN respond(401, "INVALID_TOKEN")
  ELSE IF errorName = "TokenExpiredError" THEN respond(401, "TOKEN_EXPIRED")
  ELSE respond(500, "AUTH_ERROR")

\* authenticateToken without the test of user.isLocked
authenticateToken_noLockTest(header, lookup) ==
  LET token == tokenOf(header)
  IN IF token = <<>> THEN respond(401, "NO_TOKEN")
     ELSE IF token[1].kind # "valid" THEN authCatch(verifyError(token[1].kind))
     ELSE IF lookup.t = "throws" THEN authCatch("MongoError")
     ELSE IF lookup.t = "null" THEN respond(401, "INVALID_TOKEN")
     ELSE IF ~lookup.isActive THEN respond(401, "ACCOUNT_DEACTIVATED")
     ELSE [nextCalls |-> 1, user |-> <<token[1].userId>>, responses |-> <<>>]

\* authenticateToken: what the middleware does with a request whose header
\* is header when User.findById gives lookup.  Express catches what a later
\* handler throws, so next() returns.
authenticateToken(header, lookup) ==
  LET token == tokenOf(header)
  IN IF token = <<>> THEN respond(401, "NO_TOKEN")
     ELSE IF token[1].kind # "valid" THEN authCatch(verifyError(token[1].kind))
     ELSE IF lookup.t = "throws" THEN authCatch("MongoError")
     ELSE IF lookup.t = "null" THEN respond(401, "INVALID_TOKEN")
     ELSE IF ~lookup.isActive THEN respond(401, "ACCOUNT_DEACTIVATED")
     ELSE IF lookup.isLocked THEN respond(401, "ACCOUNT_LOCKED")
     ELSE [nextCalls |-> 1, user |-> <<token[1].userId>>, responses |-> <<>>]

\* next() as the middleware would see it if the router let what the later
\* handler throws through
expressNext_uncaught(downstreamThrows) == [threw |-> downstreamThrows]

\* next() called by a middleware: Express runs the later handler inside a
\* try/catch of its own and hands what it throws to the error-handling
\* middleware, so the call returns whether or not the handler throws.
expressNext(downstreamThrows) == [threw |-> FALSE]

\* The catch block of optionalAuth after calls calls of next(): next() is
\* called again, and what it throws rejects the promise of the middleware.
optionalCatch(calls, user, downstreamThrows) ==
  [nextCalls |-> calls + 1, user |-> user, responses |-> <<>>,
   rejected |-> expressNext(downstreamThrows).threw]

\* optionalAuth: what the middleware does with a request whose header is
\* header when User.findById gives lookup and the later handler throws or
\* not.
optionalAuth(header, lookup, downstreamThrows) ==
  LET token == tokenOf(header)
      user == IF token # <<>> /\ lookup.t = "user"
                   /\ lookup.isActive /\ ~lookup.isLocked
              THEN <<token[1].userId>> ELSE <<>>
  IN IF token # <<>> /\ token[1].kind # "valid"
     THEN optionalCatch(0, <<>>, downstreamThrows)
     ELSE IF token # <<>> /\ lookup.t = "throws"
     THEN optionalCatch(0, <<>>, downstreamThrows)
     ELSE IF expressNext(downstreamThrows).threw
     THEN optionalCatch(1, user, downstreamThrows)
     ELSE [nextCalls |-> 1, user |-> user, responses |-> <<>>,
           rejected |-> FALSE]

AuthInit ==
  /\ auth = [called |-> FALSE, header |-> NoHeader,
             lookup |-> [t |-> "null", isActive |-> FALSE, isLocked |-> FALSE],
             out |-> [nextCalls |-> 0, user |-> <<>>, responses |-> <<>>]]
  /\ optional = [called |-> FALSE, header |-> NoHeader,
                 lookup |-> [t |-> "null", isActive |-> FALSE,
                             isLocked |-> FALSE],
                 downstreamThrows |-> FALSE,
                 out |-> [nextCalls |-> 0, user |-> <<>>, responses |-> <<>>,
                          rejected |-> FALSE]]

\* ------------------------------------------------------------------ state
\* The start times an update of the schedule sets.
RescheduleTimes == {ScheduledStart, ScheduledStart + TickMs}

otherRecord ==
  [id |-> AttendanceId(1), student |-> UserId(1),
   session |-> OtherSession, status |-> "present"]

Init ==
  /\ now = 0
  /\ \E m \in WindowMinutesChoices :
       session = newSession(ScheduledStart, ScheduledEnd, m)
  /\ records = <<otherRecord>>
  /\ pc = [h \in Handlers |-> "idle"]
  /\ req = [h \in Handlers |-> [student |-> UserId(1), status |-> "present"]]
  /\ lastOp = [op |-> "create", result |-> "ok"]
  /\ GeoInit /\ LimiterInit /\ SocketInit /\ AuthInit

Tick ==
  /\ now < MaxTick * TickMs
  /\ now' = now + TickMs
  /\ lastOp' = [op |-> "tick", result |-> "ok"]
  /\ UNCHANGED <<session, records, pc, req>>
  /\ UNCHANGED notSession

StartSession ==
  /\ session' = startSession(session, now)
  /\ lastOp' = [op |-> "startSession", result |-> "ok"]
  /\ UNCHANGED <<now, records, pc, req>>
  /\ UNCHANGED notSession

EndSession ==
  /\ session' = endSession(session, now)
  /\ lastOp' = [op |-> "endSession", result |-> "ok"]
  /\ UNCHANGED <<now, records, pc, req>>
  /\ UNCHANGED notSession

CancelSession ==
  /\ session' = cancelSession(session)
  /\ lastOp' = [op |-> "cancelSession", result |-> "ok"]
  /\ UNCHANGED <<now, records, pc, req>>
  /\ UNCHANGED notSession

SetStartTime(t) ==
  /\ t # session.startTime
  /\ session' = setStartTime(session, t)
  /\ lastOp' = [op |-> "setStartTime", result |-> "ok"]
  /\ UNCHANGED <<now, records, pc, req>>
  /\ UNCHANGED notSession

SetWindowMinutes(m) ==
  /\ m # session.settings.attendanceWindowMinutes
  /\ session' = setWindowMinutes(session, m)
  /\ lastOp' = [op |-> "setWindowMinutes", result |-> "ok"]
  /\ UNCHANGED <<now, records, pc, req>>
  /\ UNCHANGED notSession

UpdateStatistics ==
  /\ session' = updateStatistics(session, records)
  /\ lastOp' = [op |-> "updateStatistics", result |-> "ok"]
  /\ UNCHANGED <<now, records, pc, req>>
  /\ UNCHANGED notSession

\* A check-in handler's first step: canMarkAttendance on the session; the
\* request is refused with the reason, or goes on to insert its record.
CheckIn(h, student, status) ==
  /\ pc[h] = "idle"
  /\ LET r == canMarkAttendance(session, now, student)
     IN /\ pc' = [pc EXCEPT ![h] = IF r.canMark THEN "insert" ELSE "idle"]
        /\ req' = [req EXCEPT ![h] = IF r.canMark
                                      THEN [student |-> student, status |-> status]
                                      ELSE @]
        /\ lastOp' = [op |-> "canMarkAttendance",
                      result |-> IF r.canMark THEN "allowed" ELSE r.reason]
  /\ UNCHANGED <<now, session, records>>
  /\ UNCHANGED notSession

\* A check-in handler's second step: the record is inserted and its id
\* pushed onto the session's attendance array.
Insert(h, max) ==
  /\ pc[h] = "insert"
  /\ Cardinality(matchSession(records, ThisSession)) < max
  /\ LET rec == newRecord(records, req[h].student, req[h].status)
     IN IF duplicateKey(records, rec)
        THEN /\ lastOp' = [op |-> "insert", result |-> "DuplicateAttendance"]
             /\ UNCHANGED <<records, session>>
        ELSE /\ records' = Append(records, rec)
             /\ session' = [session EXCEPT !.attendance = Append(@, rec.id)]
             /\ lastOp' = [op |-> "insert", result |-> "ok"]
  /\ pc' = [pc EXCEPT ![h] = "idle"]
  /\ UNCHANGED <<now, req>>
  /\ UNCHANGED notSession

\* The session's life and the check-ins of its students.
Next ==
  \/ Tick
  \/ StartSession
  \/ EndSession
  \/ CancelSession
  \/ \E t \in RescheduleTimes : SetStartTime(t)
  \/ \E m \in WindowMinutesChoices : SetWindowMinutes(m)
  \/ \E h \in Handlers, s \in Students : CheckIn(h, s, "present")
  \/ \E h \in Handlers : Insert(h, MaxRecords)

Spec == Init /\ [][Next]_vars

\* ------------------------------------------------------- the statistics
\* A collection holding, after a record of another session, p present, a
\* absent, l late and e excused records of this session, each of another
\* student.
collectionOf(p, a, l, e) ==
  <<otherRecord>> \o
  [i \in 1..(p + a + l + e) |->
     [id |-> AttendanceId(i + 1), student |-> UserId(i),
      session |-> ThisSession,
      status |-> IF i <= p THEN "present"
                 ELSE IF i <= p + a THEN "absent"
                 ELSE IF i <= p + a + l THEN "late"
                 ELSE "excused"]]

\* The session, started, with the records of coll in its attendance array.
sessionWith(coll, m) ==
  [startSession(newSession(ScheduledStart, ScheduledEnd, m), 0)
     EXCEPT !.attendance = [i \in 1..(Len(coll) - 1) |-> coll[i + 1].id]]

\* statistics.attendancePercentage is a field of the document like any
\* other: the values a stored session may hold in it.
CachedPercentages == {[num |-> 0, den |-> 1], [num |-> 100, den |-> 1]}

InitStats ==
  /\ now = 0
  /\ \E p, a, l, e \in 0..MaxStatRecords :
       /\ p + a + l + e <= MaxStatRecords
       /\ records = collectionOf(p, a, l, e)
  /\ \E pct \in CachedPercentages :
       session = [sessionWith(records, 1)
                    EXCEPT !.statistics.attendancePercentage = pct]
  /\ pc = [h \in Handlers |-> "idle"]
  /\ req = [h \in Handlers |-> [student |-> UserId(1), status |-> "present"]]
  /\ lastOp = [op |-> "create", result |-> "ok"]
  /\ GeoInit /\ LimiterInit /\ SocketInit /\ AuthInit

\* Records of every status are marked while the statistics are recomputed.
NextStats ==
  \/ UpdateStatistics
  \/ \E st \in AttendanceStatus : CheckIn("h1", UserId(Len(records)), st)
  \/ Insert("h1", MaxStatRecords)

SpecStats == InitStats /\ [][NextStats]_vars

\* ----------------------------------------------------- geofence checks
notGeo == <<sessionVars, limiterVars, socketVars, authVars>>

\* What a record's location.latitude or location.longitude may hold.
RecordCoords == {Undefined} \cup {Num(c) : c \in Coords}

\* The classroomLocation arguments: no object, or an object whose fields
\* may be absent.
ClassroomLocations ==
  {NoLocation} \cup {Location(la, lo) : la, lo \in RecordCoords}

\* Radii in metres, between the distances of the grid.
Radii == {Num(50), Num(150), Num(300)}

\* record.isWithinGeofence(classroomLocation, radius)
CheckGeofence(lat, lon, classroomLocation, radius) ==
  /\ LET r == isWithinGeofence(lat, lon, classroomLocation, radius)
     IN geo' = [called |-> TRUE, lat |-> lat, lon |-> lon,
                classroomLocation |-> classroomLocation, radius |-> radius,
                threw |-> r.threw, value |-> r.value]
  /\ UNCHANGED notGeo

NextGeo ==
  \E lat, lon \in RecordCoords, c \in ClassroomLocations, r \in Radii :
    CheckGeofence(lat, lon, c, r)

SpecGeo == Init /\ [][NextGeo]_vars

\* ------------------------------------------------------- limited requests
notLimiter == <<sessionVars, geoVars, socketVars, authVars>>

\* Date.now() advances.
ClockTick ==
  /\ clock < MaxClock * ClockTickMs
  /\ clock' = clock + ClockTickMs
  /\ UNCHANGED <<attempts, admitted, retryAt, lastReq>>
  /\ UNCHANGED notLimiter

\* The last MaxAttempts + 1 elements of list followed by t.
remember(list, t) ==
  LET l == Append(list, t)
  IN IF Len(l) > MaxAttempts + 1 THEN Tail(l) ELSE l

\* How many of the timestamps of list are younger than windowMs at t.
younger(list, t) ==
  Cardinality({i \in 1..Len(list) : t - list[i] < WindowMs})

\* A request without req.user: passed on, nothing recorded.
RequestAnonymous ==
  /\ lastReq' = [user |-> Anonymous, at |-> clock, status |-> "next",
                 retryAfter |-> 0, retryAtBefore |-> -1, youngBefore |-> 0]
  /\ UNCHANGED <<clock, attempts, admitted, retryAt>>
  /\ UNCHANGED notLimiter

\* A request of user u goes through the middleware at the current time.
\* admitted and retryAt are histories: the timestamps of u's last admitted
\* requests, and the earliest time a 429 since u's last admission told u to
\* come back at (-1: none).
Request(u) ==
  /\ LET r == limitRequest(attempts[u], clock)
         deadline == clock + r.retryAfter * 1000
     IN /\ attempts' = [attempts EXCEPT ![u] = r.stored]
        /\ admitted' = IF r.status = "next"
                       THEN [admitted EXCEPT ![u] = remember(@, clock)]
                       ELSE admitted
        /\ retryAt' = [retryAt EXCEPT ![u] =
                         IF r.status = "next" THEN -1
                         ELSE IF @ < 0 \/ deadline < @ THEN deadline ELSE @]
        /\ lastReq' = [user |-> u, at |-> clock, status |-> r.status,
                       retryAfter |-> r.retryAfter,
                       retryAtBefore |-> retryAt[u],
                       youngBefore |-> younger(admitted[u], clock)]
  /\ UNCHANGED clock
  /\ UNCHANGED notLimiter

NextLimiter ==
  \/ ClockTick
  \/ RequestAnonymous
  \/ \E u \in LimiterUsers : Request(u)

SpecLimiter == Init /\ [][NextLimiter]_vars

\* ------------------------------------------------------- socket messages
notSockets == <<sessionVars, geoVars, limiterVars, authVars>>

\* io.on('connection')
Connect(s) ==
  /\ s \notin connected
  /\ connected' = connected \cup {s}
  /\ UNCHANGED <<rooms, joined, lastEmit>>
  /\ UNCHANGED notSockets

\* socket.on('join-classroom')
JoinClassroom(s, c) ==
  /\ s \in connected
  /\ rooms' = join(rooms, s, roomName(c))
  /\ joined' = [joined EXCEPT ![s][c] = TRUE]
  /\ UNCHANGED <<connected, lastEmit>>
  /\ UNCHANGED notSockets

\* socket.on('leave-classroom')
LeaveClassroom(s, c) ==
  /\ s \in connected
  /\ rooms' = leave(rooms, s, roomName(c))
  /\ joined' = [joined EXCEPT ![s][c] = FALSE]
  /\ UNCHANGED <<connected, lastEmit>>
  /\ UNCHANGED notSockets

\* The socket disconnects: socket.io takes it out of its rooms and the
\* 'disconnect' handler logs.
Disconnect(s) ==
  /\ s \in connected
  /\ connected' = connected \ {s}
  /\ rooms' = leaveAll(rooms, s)
  /\ joined' = [joined EXCEPT ![s] = [c \in ClassroomIds |-> FALSE]]
  /\ UNCHANGED lastEmit
  /\ UNCHANGED notSockets

\* socket.to(`classroom-${data.classroomId}`).emit(event, data): the handler
\* emits and returns.  members records who, at that moment, had joined the
\* classroom and neither left nor disconnected.
Emit(event, s, c) ==
  /\ s \in connected
  /\ lastEmit' = [event |-> event, classroomId |-> c, from |-> s,
                  to |-> receivers(rooms, s, roomName(c)),
                  members |-> {x \in connected : joined[x][c]}]
  /\ UNCHANGED <<connected, rooms, joined>>
  /\ UNCHANGED notSockets

\* socket.on('mark-attendance')
MarkAttendance(s, c) == Emit("attendance-update", s, c)

\* socket.on('trigger-attendance')
TriggerAttendance(s, c) == Emit("attendance-request", s, c)

NextSockets ==
  \/ \E s \in Sockets : Connect(s)
  \/ \E s \in Sockets, c \in ClassroomIds : JoinClassroom(s, c)
  \/ \E s \in Sockets, c \in ClassroomIds : LeaveClassroom(s, c)
  \/ \E s \in Sockets : Disconnect(s)
  \/ \E s \in Sockets, c \in ClassroomIds : MarkAttendance(s, c)
  \/ \E s \in Sockets, c \in ClassroomIds : TriggerAttendance(s, c)

SpecSockets == Init /\ [][NextSockets]_vars

\* -------------------------------------------------- authenticated requests
notAuth == <<sessionVars, geoVars, limiterVars, socketVars>>

\* A request goes through authenticateToken.
Authenticate(header, lookup) ==
  /\ auth' = [called |-> TRUE, header |-> header, lookup |-> lookup,
              out |-> authenticateToken(header, lookup)]
  /\ UNCHANGED optional
  /\ UNCHANGED notAuth

NextAuth == \E header \in Headers, lookup \in Lookups : Authenticate(header, lookup)

SpecAuth == Init /\ [][NextAuth]_vars

\* A request goes through optionalAuth.
OptionalAuth(header, lookup, downstreamThrows) ==
  /\ optional' = [called |-> TRUE, header |-> header, lookup |-> lookup,
                  downstreamThrows |-> downstreamThrows,
                  out |-> optionalAuth(header, lookup, downstreamThrows)]
  /\ UNCHANGED auth
  /\ UNCHANGED notAuth

NextOptionalAuth ==
  \E header \in Headers, lookup \in Lookups, downstreamThrows \in BOOLEAN :
    OptionalAuth(header, lookup, downstreamThrows)

SpecOptionalAuth == Init /\ [][NextOptionalAuth]_vars

\* ------------------------------------------------------------- the claims
Terminal == {"completed", "cancelled"}

\* The records of this session that student has.
recordsOf(student) ==
  {i \in matchSession(records, ThisSession) : records[i].student = student}

\* C1: in every reachable state a student has at most one attendance record
\* per session (of two check-ins for the same session and student one is
\* refused).
C1_AtMostOneRecordPerStudent ==
  \A s \in Students : Cardinality(recordsOf(s)) <= 1

\* C2: start() succeeds only on a scheduled session; on an active, completed
\* or cancelled session it fails with InvalidTransition and leaves status,
\* startTime and attendanceWindow unchanged.
C2_StartOnlyFromScheduled ==
  [][lastOp'.op = "startSession" =>
       IF session.status = "scheduled"
       THEN session'.status = "active" /\ session'.startTime = now
       ELSE /\ lastOp'.result = "InvalidTransition"
            /\ session'.status = session.status
            /\ session'.startTime = session.startTime
            /\ session'.attendanceWindow = session.attendanceWindow]_vars

\* C3: completed and cancelled are terminal, no step changes the status of a
\* completed or cancelled session, and an active session never returns to
\* scheduled.
C3_TerminalStatesStay ==
  [][/\ session.status \in Terminal => session'.status = session.status
     /\ session.status = "active" => session'.status # "scheduled"]_vars

\* C4: cancel() moves a scheduled or active session to cancelled; on a
\* completed or cancelled session it reports an error and changes nothing.
C4_CancelOnlyFromNonTerminal ==
  [][lastOp'.op = "cancelSession" =>
       IF session.status \in Terminal
       THEN lastOp'.result # "ok" /\ session' = session
       ELSE session'.status = "cancelled"]_vars

\* C5: a session becomes completed only from active, and endTime is then the
\* current time.
C5_CompletedOnlyFromActive ==
  [][session'.status = "completed" /\ session.status # "completed" =>
       session.status = "active" /\ session'.endTime = now]_vars

\* C6: in every saved state attendanceWindow.start is startTime and
\* attendanceWindow.end is startTime plus the configured window length.
C6_WindowFollowsStartTime ==
  /\ session.attendanceWindow.start = session.startTime
  /\ session.attendanceWindow.end =
       session.startTime + session.settings.attendanceWindowMinutes * MsPerMinute

\* The ids canMarkAttendance may be asked about: the students and whatever
\* the attendance array holds.
QueryIds == Students \cup {session.attendance[i] : i \in 1..Len(session.attendance)}

\* C7: when the status is not active, or now is before attendanceWindow.start
\* or after attendanceWindow.end, canMarkAttendance answers 'window closed'
\* for every id, also one the attendance array includes, and a check-in made
\* then is refused with that reason.
C7_ClosedWindowRefuses ==
  (\/ session.status # "active"
   \/ now < session.attendanceWindow.start
   \/ now > session.attendanceWindow.end)
  => /\ \A id \in QueryIds :
          canMarkAttendance(session, now, id)
            = [canMark |-> FALSE, reason |-> WindowClosed]
     /\ lastOp.op = "canMarkAttendance" => lastOp.result = WindowClosed

\* An active session past the end of its window, with a record marked, has
\* just refused a check-in.
C7_Witness ==
  /\ session.status = "active"
  /\ now > session.attendanceWindow.end
  /\ Len(session.attendance) > 0
  /\ lastOp = [op |-> "canMarkAttendance", result |-> WindowClosed]

\* C8: while the window is open canMarkAttendance(student) answers 'already
\* marked' exactly when the student has a record in the session's attendance
\* set, and allows the check-in otherwise.
C8_AlreadyMarkedIffRecorded ==
  isAttendanceWindowOpen(session, now) =>
    \A s \in Students :
      LET r == canMarkAttendance(session, now, s)
          marked == \E i \in recordsOf(s) :
                      includes(session.attendance, records[i].id)
      IN IF marked THEN r = [canMark |-> FALSE, reason |-> AlreadyMarked]
         ELSE r.canMark

\* C9: a check-in that evaluates canMarkAttendance on a cancelled or
\* completed session is refused and goes on to no insert, and cancel() and
\* end() leave the records and the attendance array as they were.
C9_NoCheckInAfterCancel ==
  [][/\ (lastOp'.op = "canMarkAttendance" /\ session.status \in Terminal)
          => /\ lastOp'.result = WindowClosed
             /\ pc' = pc
             /\ records' = records
             /\ session'.attendance = session.attendance
     /\ lastOp'.op \in {"cancelSession", "endSession"}
          => /\ records' = records
             /\ session'.attendance = session.attendance]_vars

\* A cancelled session with a record committed before, whose window would
\* still be open by the clock, has just refused a check-in while another
\* check-in is about to insert.
C9_Witness ==
  /\ session.status = "cancelled"
  /\ now >= session.attendanceWindow.start
  /\ now <= session.attendanceWindow.end
  /\ matchSession(records, ThisSession) # {}
  /\ lastOp = [op |-> "canMarkAttendance", result |-> WindowClosed]
  /\ \E h \in Handlers : pc[h] = "insert"

\* The number of this session's records with status st.
countStatus(st) ==
  Cardinality({i \in 1..Len(records) :
                 records[i].session = ThisSession /\ records[i].status = st})

\* C10: after updateStatistics the cached counts are the numbers of the
\* session's records with each status, totalStudents is their sum and, when
\* it is positive, attendancePercentage is presentCount / totalStudents * 100
\* (60 for 3 present, 1 absent, 1 late).
C10_StatisticsMatchRecords ==
  lastOp.op = "updateStatistics" =>
    LET st == session.statistics
        total == countStatus("present") + countStatus("absent")
                   + countStatus("late") + countStatus("excused")
    IN /\ st.presentCount = countStatus("present")
       /\ st.absentCount = countStatus("absent")
       /\ st.lateCount = countStatus("late")
       /\ st.excusedCount = countStatus("excused")
       /\ st.totalStudents = total
       /\ total > 0 =>
            st.attendancePercentage.num * total
              = countStatus("present") * 100 * st.attendancePercentage.den
       /\ (countStatus("present") = 3 /\ countStatus("absent") = 1
             /\ countStatus("late") = 1 /\ countStatus("excused") = 0)
            => st.attendancePercentage.num = 60 * st.attendancePercentage.den

\* The statistics were recomputed over 3 present, 1 absent and 1 late record.
C10_Witness ==
  /\ lastOp.op = "updateStatistics"
  /\ countStatus("present") = 3
  /\ countStatus("absent") = 1
  /\ countStatus("late") = 1
  /\ session.statistics.totalStudents = 5

\* C11: after updateStatistics on a session that has no record the cached
\* attendancePercentage is 0, whatever it was before.
C11_EmptyRecomputeGivesZero ==
  (lastOp.op = "updateStatistics" /\ matchSession(records, ThisSession) = {})
    => session.statistics.attendancePercentage.num = 0

\* C12: once endSession has completed a session whose settings.autoMarkAbsent
\* is true, every enrolled student has exactly one record of the session.
C12_AbsentMarkedOnCompletion ==
  (lastOp.op = "endSession" /\ session.status = "completed"
     /\ session.settings.autoMarkAbsent)
    => \A s \in Students : Cardinality(recordsOf(s)) = 1

\* C19: when the attendance window is open the session is active, the
\* window of an active session lies within [startTime, endTime], and after
\* startSession startTime <= endTime.
C19_WindowInsideSession ==
  /\ isAttendanceWindowOpen(session, now) => isActive(session, now)
  /\ session.status = "active" =>
       /\ session.startTime <= session.attendanceWindow.start
       /\ session.attendanceWindow.end <= session.endTime
  /\ lastOp.op = "startSession" => session.startTime <= session.endTime

\* C13: for a record whose latitude and longitude are both present, 0
\* included, and a centre with both coordinates, isWithinGeofence returns
\* true exactly when the distance to the centre is at most the radius.
C13_GeofenceIsDistanceTest ==
  (/\ geo.called
   /\ geo.lat.t = "number" /\ geo.lon.t = "number"
   /\ geo.classroomLocation.t = "object"
   /\ geo.classroomLocation.latitude.t = "number"
   /\ geo.classroomLocation.longitude.t = "number")
    => /\ ~geo.threw
       /\ geo.value =
            (calculateDistance(geo.lat, geo.lon,
                               geo.classroomLocation.latitude,
                               geo.classroomLocation.longitude).v
               <= geo.radius.v)

\* Some coordinate of the call is missing: the record's latitude or
\* longitude, or the centre's.
MissingCoordinates ==
  \/ geo.lat.t = "undefined" \/ geo.lon.t = "undefined"
  \/ geo.classroomLocation.t # "object"
  \/ geo.classroomLocation.latitude.t = "undefined"
  \/ geo.classroomLocation.longitude.t = "undefined"

\* C14: isWithinGeofence with a missing coordinate returns false and raises
\* no error.
C14_MissingCoordinatesGiveFalse ==
  (geo.called /\ MissingCoordinates) => (~geo.threw /\ geo.value = FALSE)

\* C15: of a user's admitted requests no more than maxAttempts lie within
\* an interval shorter than windowMs (any maxAttempts + 1 consecutive ones
\* span at least windowMs), and a request that arrives when maxAttempts
\* admitted requests are younger than windowMs is answered 429.
C15_SlidingWindow ==
  /\ \A u \in LimiterUsers :
       Len(admitted[u]) = MaxAttempts + 1 =>
         admitted[u][MaxAttempts + 1] - admitted[u][1] >= WindowMs
  /\ (lastReq.user \in LimiterUsers /\ lastReq.youngBefore >= MaxAttempts)
       => lastReq.status = "429"

\* A user who was admitted again after the window had slid was then refused
\* once more.
C15_Witness ==
  /\ lastReq.status = "429"
  /\ Len(admitted[lastReq.user]) = MaxAttempts + 1

\* C16: the list the attempts map holds for a user never has more than
\* maxAttempts entries, and a request answered 429 leaves the map as it was.
C16_BufferBounded ==
  [][/\ \A u \in LimiterUsers : Len(attempts'[u]) <= MaxAttempts
     /\ (lastReq' # lastReq /\ lastReq'.status = "429")
          => attempts' = attempts]_vars

\* A user's list is full and the user has just been refused.
C16_Witness ==
  /\ lastReq.status = "429"
  /\ Len(attempts[lastReq.user]) = MaxAttempts

\* C18: a 429 announces a retryAfter of at least one second, and no request
\* is refused at or after the earliest time a 429 since the user's last
\* admission announced.
C18_RetryAfterIsHonoured ==
  (lastReq.user \in LimiterUsers /\ lastReq.status = "429")
    => /\ lastReq.retryAfter >= 1
       /\ lastReq.retryAtBefore < 0 \/ lastReq.at < lastReq.retryAtBefore

\* A refused user came back exactly at the announced time and was passed on.
C18_Witness ==
  /\ lastReq.status = "next"
  /\ lastReq.retryAtBefore >= 0
  /\ lastReq.at = lastReq.retryAtBefore

TokenPresent ==
  auth.header.present /\ auth.header.hasToken /\ ~auth.header.token.empty

\* The token verifies and its user exists, is active and is not locked.
Authenticated ==
  /\ TokenPresent
  /\ auth.header.token.kind = "valid"
  /\ auth.lookup.t = "user" /\ auth.lookup.isActive /\ ~auth.lookup.isLocked

\* A failure that is neither a missing, invalid or expired token nor an
\* unknown, deactivated or locked user.
OtherFailure ==
  /\ TokenPresent
  /\ \/ auth.header.token.kind = "notYetValid"
     \/ auth.header.token.kind = "valid" /\ auth.lookup.t = "throws"

\* C20: authenticateToken calls next() once, with req.user set and no
\* response, exactly for an authenticated request; every other request gets
\* one response, 500 for another failure and 401 otherwise, next() is not
\* called and req.user is not set.
C20_ExactlyOneOutcome ==
  auth.called =>
    IF Authenticated
    THEN /\ auth.out.nextCalls = 1
         /\ auth.out.user = <<auth.header.token.userId>>
         /\ auth.out.responses = <<>>
    ELSE /\ auth.out.nextCalls = 0
         /\ auth.out.user = <<>>
         /\ Len(auth.out.responses) = 1
         /\ auth.out.responses[1].status = IF OtherFailure THEN 500 ELSE 401

\* An authenticated request was passed on.
C20_Witness ==
  auth.called /\ Authenticated /\ auth.out.nextCalls = 1

\* The token of the optionalAuth request verifies and its user exists, is
\* active and is not locked.
OptionalAuthenticated ==
  /\ optional.header.present /\ optional.header.hasToken
  /\ ~optional.header.token.empty
  /\ optional.header.token.kind = "valid"
  /\ optional.lookup.t = "user"
  /\ optional.lookup.isActive /\ ~optional.lookup.isLocked

====
